---- MODULE Spec2Model ----
(***************************************************************************)
(* obsidian-search: vault indexing (indexer.py, database.py) and search    *)
(* result processing (core.py and the three front-ends).                   *)
(*                                                                         *)
(* The store is modelled relationally.  A note row is identified by its    *)
(* UNIQUE path, a chunk row by its UNIQUE (note, chunk_index) pair and an  *)
(* embedding row by the chunk it is keyed on, so rowids do not appear.     *)
(* `disk` is the committed content of the database file, `db` is what the  *)
(* open connection of the running index_vault sees (committed rows plus    *)
(* the writes of its open transaction).                                    *)
(***************************************************************************)
EXTENDS Integers, Sequences, FiniteSets, TLC

\* ------------------------------------------------------------------ bounds
MaxMtime == 2

\* ------------------------------------------------------ vault and contents
Paths == {"a.md", "b.md"}

\* the order in which scan_vault yields the files of an unchanged vault
ScanOrder == <<"a.md", "b.md">>

\* File contents, by what parse_note makes of them:
\*   "bad"   cannot be decoded, read_text raises
\*   "empty" cleaned body is empty, chunk_text returns []
\*   "s"     body fits one chunk
\*   "l"     body is split into two chunks
Bodies == {"bad", "empty", "s", "l"}

Mtimes == 1..MaxMtime

VARIABLES
  fs,               \* the vault: set of [path, mtime, body]
  disk,             \* committed database
  db,               \* the connection's view during a run
  phase,            \* position in index_vault: "idle" (no run yet, or the vault
                    \* changed since), "delete", "index", "done" (returned)
  update_only,      \* argument of the running index_vault
  files_to_index,   \* sequence of paths
  paths_to_delete,  \* sequence of paths
  i,                \* number of candidates already taken by the for loop
  indexed,
  skipped,
  log,              \* calls made to progress_callback, in order
  run,              \* bookkeeping of the running index_vault (not program state)
  prev              \* the run that returned before this one started, when the
                    \* vault did not change in between and the mode is the same
                    \* (bookkeeping, kept by SpecTwice only)

\* the last search request (SpecSearch)
VARIABLES
  frontend,         \* who searched: "core" (search_vault), "cli", "mcp", "web";
                    \* "dedup" for a bare call of deduplicate_results
  limit,            \* the limit the caller supplied: [is_int, val]
  k_arg,            \* the limit passed to search_similar
  called,           \* whether search_similar was called
  raw,              \* the rows search_similar returned
  results,          \* the deduplicated list
  failed,           \* whether the request ended in an error
  error,            \* the error it ended in, "" when none
  calls             \* the calls it made to the store and to the embedding
                    \* provider, in order

\* the vault directory
VARIABLES
  marker,           \* the .obsidian directory: "absent" or "present"
  store_exists      \* whether .obsidian/obsidian-search.db exists

VARIABLES
  rd,               \* the last note-read request and its answer (SpecRead)
  pn                \* the last call of a parser function (SpecParse)

ivars == <<fs, disk, db, phase, update_only, files_to_index,
           paths_to_delete, i, indexed, skipped, log, run, prev>>

svars == <<frontend, limit, k_arg, called, raw, results, failed, error, calls>>

mvars == <<marker, store_exists>>

ovars == <<rd, pn>>

vars == <<ivars, svars, mvars, ovars>>

\* ---------------------------------------------------------------- helpers
Min(a, b) == IF a < b THEN a ELSE b

Max(a, b) == IF a > b THEN a ELSE b

RECURSIVE FilterSeq(_, _)
\* the subsequence of s whose elements are in the set S, order kept
FilterSeq(s, S) ==
  IF s = <<>> THEN <<>>
  ELSE IF Head(s) \in S THEN <<Head(s)>> \o FilterSeq(Tail(s), S)
       ELSE FilterSeq(Tail(s), S)

Range(s) == {s[k] : k \in 1..Len(s)}

\* ------------------------------------------------------------- database.py
EmptyDb == [notes |-> {}, chunks |-> {}, embeddings |-> {}]

get_note_by_path(d, path) == {n \in d.notes : n.path = path}

get_all_notes_mtime(d) == {[path |-> n.path, mtime |-> n.mtime] : n \in d.notes}

get_note_count(d) == Cardinality(d.notes)

get_chunk_count(d) == Cardinality(d.chunks)

\* rows reached by the join of search_similar: embeddings -> chunks -> notes
search_similar_rows(d) ==
  {[path |-> n.path, title |-> n.title, note_content |-> n.content,
    chunk_content |-> c.content, chunk_index |-> c.chunk_index] :
      <<e, c, n>> \in {t \in d.embeddings \X d.chunks \X d.notes :
                          /\ t[2].path = t[1].path
                          /\ t[2].chunk_index = t[1].chunk_index
                          /\ t[3].path = t[2].path}}

delete_note_chunks_keep_embeddings(d, path) ==
  [d EXCEPT !.chunks = {c \in @ : c.path # path}]

delete_note_chunks_all(d, path) ==
  [d EXCEPT !.embeddings = {}, !.chunks = {}]

delete_note_chunks(d, path) ==
  LET chunk_ids == {c \in d.chunks : c.path = path}
  IN  [d EXCEPT
         !.embeddings = {e \in @ : ~ \E c \in chunk_ids :
                            c.path = e.path /\ c.chunk_index = e.chunk_index},
         !.chunks = {c \in @ : c.path # path}]

RECURSIVE insert_chunks(_, _, _, _, _)
\* the for loop of upsert_note over zip(chunks, embeddings), from 0-based
\* position k.  A vector the vec0 table rejects ("bad") raises after its
\* chunk row was inserted.  Returns the connection's view and whether it
\* raised.
insert_chunks(d, path, chunks, embeddings, k) ==
  IF k >= Min(Len(chunks), Len(embeddings)) THEN [db |-> d, raised |-> FALSE]
  ELSE
    LET d1 == [d EXCEPT !.chunks = @ \cup
                 {[path |-> path, chunk_index |-> k, content |-> chunks[k + 1]]}]
    IN  IF embeddings[k + 1] = "bad" THEN [db |-> d1, raised |-> TRUE]
        ELSE insert_chunks(
               [d1 EXCEPT !.embeddings = @ \cup {[path |-> path, chunk_index |-> k]}],
               path, chunks, embeddings, k + 1)

\* an upsert_note that keeps the chunks of the version it replaces
upsert_note_keeps_chunks(d, path, title, content, mtime, chunks, embeddings) ==
  LET row == [path |-> path, title |-> title, content |-> content, mtime |-> mtime]
  IN  insert_chunks([d EXCEPT !.notes = {n \in @ : n.path # path} \cup {row}],
                    path, chunks, embeddings, 0)

\* upsert_note up to, not including, conn.commit(): the caller commits when
\* raised is FALSE
upsert_note(d, path, title, content, mtime, chunks, embeddings) ==
  LET row == [path |-> path, title |-> title, content |-> content, mtime |-> mtime]
      d1 == IF get_note_by_path(d, path) # {}
            THEN delete_note_chunks(
                   [d EXCEPT !.notes = {n \in @ : n.path # path} \cup {row}], path)
            ELSE [d EXCEPT !.notes = @ \cup {row}]
  IN  insert_chunks(d1, path, chunks, embeddings, 0)

\* delete_note up to, not including, conn.commit()
delete_note(d, path) ==
  IF get_note_by_path(d, path) # {}
  THEN [delete_note_chunks(d, path) EXCEPT !.notes = {n \in @ : n.path # path}]
  ELSE d

\* --------------------------------------------------------------- parser.py
\* the chunks chunk_text makes of a file's cleaned body, by the kind of body
note_chunks(body) ==
  CASE body = "s" -> <<[of |-> "s", part |-> 0]>>
    [] body = "l" -> <<[of |-> "l", part |-> 0], [of |-> "l", part |-> 1]>>
    [] OTHER -> <<>>

\* parse_note of a readable file
parse_note(body) ==
  [title |-> body, content |-> body, chunks |-> note_chunks(body)]

\* ----------------------------------------------------------- embeddings.py
\* What get_embeddings_batch can do for n texts: raise, or return what the
\* provider answered, unchecked: one vector per text, of which one may have a
\* dimension the vec0 table rejects ("bad"), or a list that is one short.
VecSeqs(n) ==
  {v \in [1..n -> {"vec", "bad"}] : Cardinality({k \in 1..n : v[k] = "bad"}) <= 1}
    \cup {[k \in 1..(n - 1) |-> "vec"]}

get_embeddings_batch(n) == {<<"raise">>} \cup VecSeqs(n)

\* ------------------------------------------------------------- indexer.py
scan_vault == FilterSeq(ScanOrder, {f.path : f \in fs})

st_mtime(path) == (CHOOSE f \in fs : f.path = path).mtime

body_of(path) == (CHOOSE f \in fs : f.path = path).body

get_files_to_index_ge(existing_mtimes, upd) ==
  LET current_files == scan_vault
      known == {m.path : m \in existing_mtimes}
      stored(p) == (CHOOSE m \in existing_mtimes : m.path = p).mtime
      cand == {p \in Range(current_files) :
                 \/ ~upd
                 \/ p \notin known
                 \/ st_mtime(p) >= stored(p)}
  IN  [files_to_index |-> FilterSeq(current_files, cand),
       paths_to_delete |-> FilterSeq(ScanOrder, known \ Range(current_files))]

get_files_to_index_ne(existing_mtimes, upd) ==
  LET current_files == scan_vault
      known == {m.path : m \in existing_mtimes}
      stored(p) == (CHOOSE m \in existing_mtimes : m.path = p).mtime
      cand == {p \in Range(current_files) :
                 \/ ~upd
                 \/ p \notin known
                 \/ st_mtime(p) # stored(p)}
  IN  [files_to_index |-> FilterSeq(current_files, cand),
       paths_to_delete |-> FilterSeq(ScanOrder, known \ Range(current_files))]

\* a classification that takes every discovered file in both modes
get_files_to_index_all(existing_mtimes, upd) ==
  LET current_files == scan_vault
      known == {m.path : m \in existing_mtimes}
  IN  [files_to_index |-> current_files,
       paths_to_delete |-> FilterSeq(ScanOrder, known \ Range(current_files))]

get_files_to_index(existing_mtimes, upd) ==
  LET current_files == scan_vault
      known == {m.path : m \in existing_mtimes}
      stored(p) == (CHOOSE m \in existing_mtimes : m.path = p).mtime
      cand == {p \in Range(current_files) :
                 \/ ~upd
                 \/ p \notin known
                 \/ st_mtime(p) > stored(p)}
  IN  [files_to_index |-> FilterSeq(current_files, cand),
       paths_to_delete |-> FilterSeq(ScanOrder, known \ Range(current_files))]

NoOutcome == [p \in Paths |-> <<"none">>]

NoRows == [notes |-> {}, chunks |-> {}, embeddings |-> {}]

\* the rows of d that belong to the note at path
RowsOf(d, path) ==
  [notes |-> {n \in d.notes : n.path = path},
   chunks |-> {c \in d.chunks : c.path = path},
   embeddings |-> {e \in d.embeddings : e.path = path}]

\* Bookkeeping of one run: the store's paths and the walk at its start; per
\* candidate what parse and embedding gave (outcome) and which step raised
\* ("no", "parse", "embed", "upsert"); for a candidate whose upsert_note
\* raised, the committed rows of its note at that moment; the steps executed
\* so far, in their order; the candidates whose file was rewritten between
\* the read of its content and the read of its mtime (raced); and, of the run
\* that returned just before this one with no change of the vault in
\* between, the raced candidates that were indexed (stale).
NoRun == [start_notes |-> {}, walk |-> {}, outcome |-> NoOutcome,
          raised |-> [p \in Paths |-> "no"],
          prior |-> [p \in Paths |-> NoRows],
          steps |-> <<>>, raced |-> {}, stale |-> {}]

NoPrev == [valid |-> FALSE, update_only |-> FALSE, indexed |-> 0, deleted |-> 0,
           outcome |-> NoOutcome, raised |-> [p \in Paths |-> "no"],
           after |-> EmptyDb]

\* no request yet
NoRead == [via |-> "none", at |-> [is_abs |-> FALSE, parts |-> <<>>],
           answer |-> "none", opened |-> {}]

NoParse == [op |-> "none"]

\* everything but the vault directory: no file, no store, no request
InitCommon ==
  /\ fs = {}
  /\ disk = EmptyDb
  /\ db = EmptyDb
  /\ phase = "idle"
  /\ update_only = FALSE
  /\ files_to_index = <<>>
  /\ paths_to_delete = <<>>
  /\ i = 0
  /\ indexed = 0
  /\ skipped = 0
  /\ log = <<>>
  /\ run = NoRun
  /\ prev = NoPrev
  /\ frontend = "none"
  /\ limit = [is_int |-> TRUE, val |-> 0]
  /\ k_arg = 0
  /\ called = FALSE
  /\ raw = <<>>
  /\ results = <<>>
  /\ failed = FALSE
  /\ error = ""
  /\ calls = <<>>
  /\ store_exists = FALSE
  /\ rd = NoRead
  /\ pn = NoParse

\* the root is an Obsidian vault, or a directory that lacks the marker
Init ==
  /\ InitCommon
  /\ marker \in {"absent", "present"}

\* the root is an Obsidian vault
InitVault ==
  /\ InitCommon
  /\ marker = "present"

\* init_db, lines 26-28: mkdir(parents=True, exist_ok=True) of the store's
\* directory, then sqlite3.connect creates the file
init_db ==
  /\ marker' = "present"
  /\ store_exists' = TRUE

\* a change of the vault between runs; the locals of the last run are gone
Forget ==
  /\ phase' = "idle"
  /\ update_only' = FALSE
  /\ files_to_index' = <<>>
  /\ paths_to_delete' = <<>>
  /\ i' = 0
  /\ indexed' = 0
  /\ skipped' = 0
  /\ log' = <<>>
  /\ run' = NoRun
  /\ prev' = NoPrev
  /\ UNCHANGED <<disk, db, svars, mvars, ovars>>

\* the vault changes: a note is written (created or modified) ...
WriteFile ==
  /\ phase \in {"idle", "done", "killed", "rejected"}
  /\ \E p \in Paths, b \in Bodies, m \in Mtimes :
       /\ [path |-> p, mtime |-> m, body |-> b] \notin fs
       /\ fs' = {f \in fs : f.path # p} \cup {[path |-> p, mtime |-> m, body |-> b]}
  /\ Forget

\* ... or removed
RemoveFile ==
  /\ phase \in {"idle", "done", "killed", "rejected"}
  /\ \E f \in fs : fs' = fs \ {f}
  /\ Forget

\* index_vault, lines 82-93: open the store, scan, classify.  With track,
\* the run that just returned is remembered in prev.
Start(track) ==
  /\ phase \in {"idle", "done", "killed", "rejected"}
  /\ init_db
  /\ \E upd \in BOOLEAN :
       LET existing_mtimes == IF upd THEN get_all_notes_mtime(disk) ELSE {}
           r == get_files_to_index(existing_mtimes, upd)
       IN  /\ update_only' = upd
           /\ files_to_index' = r.files_to_index
           /\ paths_to_delete' = r.paths_to_delete
           /\ prev' = IF track /\ phase = "done" /\ update_only = upd
                      THEN [valid |-> TRUE, update_only |-> update_only,
                            indexed |-> indexed, deleted |-> Len(paths_to_delete),
                            outcome |-> run.outcome, raised |-> run.raised,
                            after |-> disk]
                      ELSE NoPrev
  /\ run' = [NoRun EXCEPT !.start_notes = {n.path : n \in disk.notes},
                          !.walk = Range(scan_vault),
                          !.stale = IF phase = "done"
                                    THEN {p \in run.raced :
                                            /\ run.raised[p] = "no"
                                            /\ run.outcome[p] # <<"empty">>}
                                    ELSE {}]
  /\ db' = disk
  /\ phase' = "delete"
  /\ i' = 0
  /\ indexed' = 0
  /\ skipped' = 0
  /\ log' = <<>>
  /\ UNCHANGED <<fs, disk, svars, ovars>>

StartRun == Start(FALSE)

StartRunTracked == Start(TRUE)

RECURSIVE delete_all(_, _, _)
\* the loop of lines 96-97 from position k on a connection whose view is d
\* and whose database file holds c: delete_note commits when it found a row
delete_all(d, c, k) ==
  IF k > Len(paths_to_delete) THEN [db |-> d, disk |-> c]
  ELSE IF get_note_by_path(d, paths_to_delete[k]) # {}
       THEN LET d1 == delete_note(d, paths_to_delete[k])
            IN  delete_all(d1, d1, k + 1)
       ELSE delete_all(d, c, k + 1)

\* index_vault, lines 95-97: the deletion loop
DeleteRemoved ==
  /\ phase = "delete"
  /\ LET r == delete_all(db, disk, 1)
     IN  /\ db' = r.db
         /\ disk' = r.disk
  /\ phase' = "index"
  /\ UNCHANGED <<fs, update_only, files_to_index, paths_to_delete,
                 i, indexed, skipped, log, run, prev, svars, mvars, ovars>>

\* a callback that counts the candidates from 0
NotifyFromZero(l, kind, path, cur) ==
  Append(l, [kind |-> kind, path |-> path, current |-> cur - 1,
             total |-> Len(files_to_index)])

\* a call of progress_callback
Notify(l, kind, path, cur) ==
  Append(l, [kind |-> kind, path |-> path, current |-> cur,
             total |-> Len(files_to_index)])

ExceptNoCount(l, path, cur) ==
  /\ log' = Notify(l, "Error", path, cur)
  /\ UNCHANGED <<skipped, indexed, phase>>

\* an except branch that counts the candidate in both counters
ExceptCountsTwice(l, path, cur) ==
  /\ log' = Notify(l, "Error", path, cur)
  /\ skipped' = skipped + 1
  /\ indexed' = indexed + 1
  /\ UNCHANGED phase

\* the except branch of lines 130-133; the loop goes on
Except(l, path, cur) ==
  /\ log' = Notify(l, "Error", path, cur)
  /\ skipped' = skipped + 1
  /\ UNCHANGED <<indexed, phase>>

\* the steps of one iteration in the order they are executed, as far as
\* the iteration got: the callback of line 104 first, then parse_note,
\* get_embeddings_batch and upsert_note
steps_of(k, last) ==
  LET all == <<"notify", "parse", "embed", "upsert">>
      n == CHOOSE x \in 1..4 : all[x] = last
  IN  [x \in 1..n |-> [op |-> all[x], at |-> k]]

\* index_vault, lines 100-133: one iteration of the for loop, for a file
\* whose content parse_note reads as body and whose stat gives mtime; run0
\* is the bookkeeping the iteration adds to
IndexOne(rel_path, body, mtime, run0) ==
  LET log1 == Notify(log, "Indexing", rel_path, i + 1)
      note == parse_note(body)
      did(last) == run0.steps \o steps_of(i + 1, last)
  IN  IF body = "bad"
      THEN \* parse_note raises
           /\ Except(log1, rel_path, i + 1)
           /\ run' = [run0 EXCEPT !.outcome[rel_path] = <<"parse_error">>,
                                  !.raised[rel_path] = "parse",
                                  !.steps = did("parse")]
           /\ UNCHANGED <<db, disk>>
      ELSE IF note.chunks = <<>>
      THEN \* skip notes with no chunks
           /\ log' = log1
           /\ skipped' = skipped + 1
           /\ run' = [run0 EXCEPT !.outcome[rel_path] = <<"empty">>,
                                  !.steps = did("parse")]
           /\ UNCHANGED <<db, disk, indexed, phase>>
      ELSE \E embeddings \in get_embeddings_batch(Len(note.chunks)) :
             IF embeddings = <<"raise">>
             THEN /\ Except(log1, rel_path, i + 1)
                  /\ run' = [run0 EXCEPT !.outcome[rel_path] = embeddings,
                                         !.raised[rel_path] = "embed",
                                         !.steps = did("embed")]
                  /\ UNCHANGED <<db, disk>>
             ELSE LET r == upsert_note(db, rel_path, note.title, note.content,
                                       mtime, note.chunks, embeddings)
                  IN  /\ db' = r.db
                      /\ IF r.raised
                         THEN /\ Except(log1, rel_path, i + 1)
                              /\ run' = [run0 EXCEPT
                                   !.outcome[rel_path] = embeddings,
                                   !.raised[rel_path] = "upsert",
                                   !.prior[rel_path] = RowsOf(disk, rel_path),
                                   !.steps = did("upsert")]
                              /\ UNCHANGED disk
                         ELSE \* conn.commit()
                              /\ disk' = r.db
                              /\ log' = log1
                              /\ indexed' = indexed + 1
                              /\ run' = [run0 EXCEPT
                                   !.outcome[rel_path] = embeddings,
                                   !.steps = did("upsert")]
                              /\ UNCHANGED <<skipped, phase>>

\* one iteration while nothing else touches the file
IndexFile ==
  /\ phase = "index"
  /\ i < Len(files_to_index)
  /\ LET rel_path == files_to_index[i + 1]
     IN  IndexOne(rel_path, body_of(rel_path), st_mtime(rel_path), run)
  /\ i' = i + 1
  /\ UNCHANGED <<fs, update_only, files_to_index, paths_to_delete, prev, svars, mvars, ovars>>

\* one iteration while another process rewrites the file between line 107,
\* where parse_note reads its content, and line 108, where stat reads its
\* mtime: the content is the old one, the mtime the new one
IndexFileModified ==
  /\ phase = "index"
  /\ i < Len(files_to_index)
  /\ LET rel_path == files_to_index[i + 1]
         f == CHOOSE x \in fs : x.path = rel_path
     IN  \E b \in Bodies \ {f.body}, m \in Mtimes :
           /\ m > f.mtime
           /\ fs' = (fs \ {f}) \cup {[path |-> rel_path, mtime |-> m, body |-> b]}
           /\ IndexOne(rel_path, f.body, m,
                       [run EXCEPT !.raced = @ \cup {rel_path}])
  /\ i' = i + 1
  /\ UNCHANGED <<update_only, files_to_index, paths_to_delete, prev, svars, mvars, ovars>>

\* index_vault, lines 135-136: close the connection (an open transaction is
\* rolled back) and return (indexed, skipped, len(paths_to_delete))
FinishRun ==
  /\ phase = "index"
  /\ i = Len(files_to_index)
  /\ db' = disk
  /\ phase' = "done"
  /\ UNCHANGED <<fs, disk, update_only, files_to_index, paths_to_delete,
                 i, indexed, skipped, log, run, prev, svars, mvars, ovars>>

\* the process is terminated during a run: the open transaction is never
\* committed, the locals are gone (of the bookkeeping, what the upserts that
\* raised had found is kept)
Kill ==
  /\ phase \in {"delete", "index"}
  /\ db' = disk
  /\ phase' = "killed"
  /\ update_only' = FALSE
  /\ files_to_index' = <<>>
  /\ paths_to_delete' = <<>>
  /\ i' = 0
  /\ indexed' = 0
  /\ skipped' = 0
  /\ log' = <<>>
  /\ run' = [NoRun EXCEPT !.raised = run.raised, !.prior = run.prior]
  /\ UNCHANGED <<fs, disk, prev, svars, mvars, ovars>>

\* cli.index, lines 30-35, and mcp_server.handle_index, lines 237-241: the
\* command is refused when the root has no .obsidian; with the marker both
\* go on to index_vault
IndexCommandRejected ==
  /\ phase \in {"idle", "done", "killed"}
  /\ marker = "absent"
  /\ phase' = "rejected"
  /\ update_only' = FALSE
  /\ files_to_index' = <<>>
  /\ paths_to_delete' = <<>>
  /\ i' = 0
  /\ indexed' = 0
  /\ skipped' = 0
  /\ log' = <<>>
  /\ run' = NoRun
  /\ UNCHANGED <<fs, disk, db, prev, svars, mvars, ovars>>

Next ==
  \/ WriteFile
  \/ RemoveFile
  \/ StartRun
  \/ IndexCommandRejected
  \/ DeleteRemoved
  \/ IndexFile
  \/ FinishRun
  \/ Kill

\* runs of index_vault on a vault that changes between them
Spec == Init /\ [][Next]_vars

NextConcurrent ==
  \/ Next
  \/ IndexFileModified

\* the same on a vault that another process also changes during a run
SpecConcurrent == Init /\ [][NextConcurrent]_vars

NextTwice ==
  \/ WriteFile
  \/ RemoveFile
  \/ StartRunTracked
  \/ DeleteRemoved
  \/ IndexFile
  \/ FinishRun

\* the same, remembering the previous run for the claims about two runs in a row
SpecTwice == InitVault /\ [][NextTwice]_vars

TypeOK ==
  /\ phase \in {"idle", "delete", "index", "done", "killed", "rejected"}
  /\ \A f \in fs : f.path \in Paths /\ f.mtime \in Mtimes /\ f.body \in Bodies
  /\ i \in 0..Len(files_to_index)

\* ---------------------------------------------------------- indexing claims
Returned == phase = "done"

deleted == Len(paths_to_delete)

\* notes in the store when the run started whose file the walk did not find
Gone == run.start_notes \ run.walk

\* C1: after any run, full or update, every note that was in the store at the
\* start and whose file is absent from the walk is removed from the store,
\* and the returned deleted count is the number of such notes.
C1_DeletionsReconciledInBothModes ==
  Returned =>
    /\ \A p \in Gone : get_note_by_path(disk, p) = {}
    /\ deleted = Cardinality(Gone)

\* C2: when an upsert_note of a note raised partway, no committed state of
\* the store holds a partial replacement of the note: its committed rows are
\* still the ones it had before the call.
C2_UpsertAtomic ==
  \A p \in Paths :
    run.raised[p] = "upsert" => RowsOf(disk, p) = run.prior[p]

\* positions of the for loop that have been executed
Taken == 1..i

RaisedAt(k) == run.raised[files_to_index[k]] # "no"

EmptyAt(k) == run.outcome[files_to_index[k]] = <<"empty">>

LogOf(kind, k) ==
  {n \in 1..Len(log) : log[n].kind = kind /\ log[n].current = k}

\* C3: a candidate whose parse, embedding or upsert raised is counted as
\* skipped exactly once and reported once through the progress callback, the
\* candidates after it are still processed, and the run returns its counts.
C3_FailureIsolated ==
  phase \in {"index", "done"} =>
    /\ \A k \in Taken :
         /\ Cardinality(LogOf("Indexing", k)) = 1
         /\ Cardinality(LogOf("Error", k)) = IF RaisedAt(k) THEN 1 ELSE 0
         /\ \A n \in LogOf("Error", k) : log[n].path = files_to_index[k]
    /\ skipped = Cardinality({k \in Taken : RaisedAt(k) \/ EmptyAt(k)})
    /\ indexed + skipped = i
    /\ Returned => i = Len(files_to_index)

C3_Witness ==
  /\ Returned
  /\ Len(files_to_index) = 2
  /\ run.raised[files_to_index[1]] = "upsert"
  /\ run.raised[files_to_index[2]] = "no"
  /\ indexed = 1
  /\ skipped = 1

\* C6: a previously indexed file is removed and update mode runs once: the
\* store then holds no note, chunk or embedding row of that path, the search
\* join cannot produce it and the counts do not include it.
C6_DeletionReconciled ==
  (Returned /\ update_only) =>
    \A p \in Gone :
      /\ RowsOf(disk, p) = NoRows
      /\ \A r \in search_similar_rows(disk) : r.path # p
      /\ get_note_count(disk) = Cardinality({n \in disk.notes : n.path # p})
      /\ get_chunk_count(disk) = Cardinality({c \in disk.chunks : c.path # p})

C6_Witness ==
  /\ Returned
  /\ update_only
  /\ Gone # {}
  /\ indexed = 1

\* ------------------------------------------------- claims about two runs
\* two update-mode runs in a row with no change of the vault between them;
\* the second has returned
TwoUpdateRuns == Returned /\ update_only /\ prev.valid

\* two full-mode runs in a row with no change of the vault between them
TwoFullRuns == Returned /\ ~update_only /\ prev.valid

NoneRaised(r) == \A p \in Paths : r.raised[p] = "no"

StoredText(d) ==
  [notes |-> {[path |-> n.path, title |-> n.title, content |-> n.content] :
                n \in d.notes},
   chunks |-> d.chunks]

SameStored(d1, d2) ==
  /\ StoredText(d1) = StoredText(d2)
  /\ get_note_count(d1) = get_note_count(d2)
  /\ get_chunk_count(d1) = get_chunk_count(d2)

MAX_SEARCH_LIMIT == 50

\* Floats.  A Python float carries 53 significand bits; the model's floats
\* carry Precision bits and round to nearest, ties to even, in the same way.
\* Values are written as integer multiples of 2^-(2 * Precision).
Precision == 3

\* distances are the floats n * 2^-Precision, n in 0..MaxDist (all below 1)
MaxDist == 3

\* most rows a query returns in the model
MaxRaw == 3

RECURSIVE Pow2(_)
Pow2(n) == IF n = 0 THEN 1 ELSE 2 * Pow2(n - 1)

One == Pow2(2 * Precision)

\* a / b rounded to the nearest integer, ties to even
RoundHalfEven(a, b) ==
  LET q == a \div b
      r == a % b
  IN  IF 2 * r < b THEN q
      ELSE IF 2 * r > b THEN q + 1
      ELSE IF q % 2 = 0 THEN q ELSE q + 1

\* the float nearest to a / b, where floats are step apart
fl(a, b, step) == step * RoundHalfEven(a, b * step)

\* the float 1 + distance; floats in [1, 2] are 2^-(Precision - 1) apart
one_plus(n) == fl(One + n * Pow2(Precision), 1, Pow2(Precision + 1))

score_no_reciprocal(r) == one_plus(r.distance)

\* SearchResult.score, 1 / (1 + self.distance); floats in [1/2, 1] are
\* 2^-Precision apart
score(r) == fl(One * One, one_plus(r.distance), Pow2(Precision))

\* a row of search_similar: a chunk of a note and its distance to the query
Rows == [path : Paths, chunk_index : 0..1, distance : 0..MaxDist]

DistinctChunks(s) ==
  \A a, b \in 1..Len(s) :
    (a # b) => <<s[a].path, s[a].chunk_index>> # <<s[b].path, s[b].chunk_index>>

\* lists of at most n rows, each of another chunk
RowLists(n) ==
  {s \in UNION {[1..m -> Rows] : m \in 0..n} : DistinctChunks(s)}

Ascending(s) ==
  \A a, b \in 1..Len(s) : (a < b) => s[a].distance <= s[b].distance

search_similar_ignores_k(kk) == {s \in RowLists(MaxRaw) : Ascending(s)}

\* what search_similar may return for k = kk: at most kk rows, ORDER BY
\* distance (kk >= 0; the vec0 table rejects a negative k)
search_similar(kk) == {s \in RowLists(Min(kk, MaxRaw)) : Ascending(s)}

RECURSIVE seen_after_first_wins(_, _)
seen_after_first_wins(seen, rs) ==
  IF rs = <<>> THEN seen
  ELSE IF \E n \in 1..Len(seen) : seen[n].path = Head(rs).path
       THEN seen_after_first_wins(seen, Tail(rs))
       ELSE seen_after_first_wins(Append(seen, Head(rs)), Tail(rs))

RECURSIVE seen_after(_, _)
\* the values of the dict `seen`, in insertion order, after the loop of
\* deduplicate_results over rs
seen_after(seen, rs) ==
  IF rs = <<>> THEN seen
  ELSE LET result == Head(rs)
           at == {n \in 1..Len(seen) : seen[n].path = result.path}
       IN  IF at = {}
           THEN seen_after(Append(seen, result), Tail(rs))
           ELSE LET n == CHOOSE n \in at : TRUE
                IN  IF result.distance < seen[n].distance
                    THEN seen_after([seen EXCEPT ![n] = result], Tail(rs))
                    ELSE seen_after(seen, Tail(rs))

RECURSIVE sorted_by_distance(_)
\* sorted(values, key=lambda r: r.distance): stable, ascending
sorted_by_distance(s) ==
  IF s = <<>> THEN <<>>
  ELSE LET front == sorted_by_distance(SubSeq(s, 1, Len(s) - 1))
           x == s[Len(s)]
           n == Cardinality({j \in 1..Len(front) : front[j].distance <= x.distance})
       IN  SubSeq(front, 1, n) \o <<x>> \o SubSeq(front, n + 1, Len(front))

deduplicate_results_unsorted(rs) == seen_after(<<>>, rs)

deduplicate_results_first_wins(rs) ==
  sorted_by_distance(seen_after_first_wins(<<>>, rs))

deduplicate_results(rs) == sorted_by_distance(seen_after(<<>>, rs))

\* SearchResult.from_row keeps the fields of the row
parse_search_results(raw_results) == deduplicate_results(raw_results)

clamp_limit_no_floor(lim) == Min(lim, MAX_SEARCH_LIMIT)

\* search_vault, line 242
clamp_limit(lim) == Max(1, Min(lim, MAX_SEARCH_LIMIT))

\* limits a caller may supply
LimitValues == {-1, 0, 1, 2, 3, 10, 50, 51, 999}

IntLimits == {[is_int |-> TRUE, val |-> v] : v \in LimitValues}

NotAnInt == [is_int |-> FALSE, val |-> 0]

require_index_fails_after_embedding(err) ==
  /\ k_arg' = 0
  /\ called' = FALSE
  /\ raw' = <<>>
  /\ failed' = TRUE
  /\ error' = err
  /\ calls' = <<"get_embedding">>

\* the store file is missing: the request ends in err before anything is
\* opened or embedded (core.require_index and the exists() checks of the
\* front-ends)
require_index_fails(err) ==
  /\ k_arg' = 0
  /\ called' = FALSE
  /\ raw' = <<>>
  /\ failed' = TRUE
  /\ error' = err
  /\ calls' = <<>>

\* conn = init_db(db_path); get_embedding(query);
\* search_similar(conn, query_embedding, limit=kk), after the calls in before
Query(kk, before) ==
  /\ k_arg' = kk
  /\ called' = TRUE
  /\ calls' = before \o <<"init_db", "get_embedding", "search_similar">>
  /\ IF kk < 0
     THEN /\ raw' = <<>>
          /\ failed' = TRUE
          /\ error' = "OperationalError"
     ELSE /\ raw' \in search_similar(kk)
          /\ failed' = FALSE
          /\ error' = ""

\* core.search_vault
SearchVault ==
  /\ frontend = "none"
  /\ \E lim \in IntLimits :
       /\ limit' = lim
       /\ IF ~store_exists
          THEN require_index_fails("IndexError")
          ELSE Query(clamp_limit(lim.val), <<>>)
  /\ results' = parse_search_results(raw')
  /\ frontend' = "core"
  /\ UNCHANGED <<ivars, mvars, ovars>>

\* the loop over the rows in cli.py, mcp_server.py and web_app.py:
\* if path not in seen_paths or distance < seen_paths[path][5]
dedup_inline(rows) == sorted_by_distance(seen_after(<<>>, rows))

\* cli.search
CliSearch ==
  /\ frontend = "none"
  /\ \E lim \in IntLimits :
       /\ limit' = lim
       /\ IF ~store_exists
          THEN require_index_fails("SystemExit: No index found")
          ELSE Query(lim.val, <<>>)
  /\ results' = dedup_inline(raw')
  /\ frontend' = "cli"
  /\ UNCHANGED <<ivars, mvars, ovars>>

\* mcp_server.handle_search
McpSearch ==
  /\ frontend = "none"
  /\ \E lim \in IntLimits :
       /\ limit' = lim
       /\ IF ~store_exists
          THEN require_index_fails("Error: No index found")
          ELSE Query(lim.val, <<>>)
  /\ results' = dedup_inline(raw')
  /\ frontend' = "mcp"
  /\ UNCHANGED <<ivars, mvars, ovars>>

\* web_app do_POST /api/search with a query and an available model
WebSearch ==
  /\ frontend = "none"
  /\ \E lim \in IntLimits \cup {NotAnInt} :
       /\ limit' = lim
       /\ IF ~store_exists
          THEN require_index_fails("400 Index missing")
          ELSE LET l1 == IF lim.is_int THEN lim.val ELSE 10
               IN  Query(Max(1, Min(l1, 50)), <<"ensure_model_available">>)
  /\ results' = dedup_inline(raw')
  /\ frontend' = "web"
  /\ UNCHANGED <<ivars, mvars, ovars>>

\* deduplicate_results called on any list of results
Deduplicate ==
  /\ frontend = "none"
  /\ \E rs \in RowLists(MaxRaw) :
       /\ raw' = rs
       /\ results' = deduplicate_results(rs)
  /\ frontend' = "dedup"
  /\ limit' = [is_int |-> TRUE, val |-> 0]
  /\ k_arg' = 0
  /\ called' = FALSE
  /\ failed' = FALSE
  /\ error' = ""
  /\ calls' = <<>>
  /\ UNCHANGED <<ivars, mvars, ovars>>

\* the answer has been delivered; nothing of the request is kept
Answered ==
  /\ frontend # "none"
  /\ frontend' = "none"
  /\ limit' = [is_int |-> TRUE, val |-> 0]
  /\ k_arg' = 0
  /\ called' = FALSE
  /\ raw' = <<>>
  /\ results' = <<>>
  /\ failed' = FALSE
  /\ error' = ""
  /\ calls' = <<>>
  /\ UNCHANGED <<ivars, mvars, ovars>>

\* an indexing run opens the store for the first time (index_vault, line 84)
StoreCreated ==
  /\ frontend = "none"
  /\ ~store_exists
  /\ init_db
  /\ UNCHANGED <<ivars, svars, ovars>>

NextSearch ==
  \/ StoreCreated
  \/ Answered
  \/ SearchVault
  \/ CliSearch
  \/ McpSearch
  \/ WebSearch
  \/ Deduplicate

\* search requests, before and after the vault is indexed
SpecSearch == Init /\ [][NextSearch]_vars

\* ------------------------------------------------------------ search claims
\* C7: deduplicate_results returns at most one result per path, the one it
\* returns for a path has the lowest distance among the path's entries of the
\* raw list, every result is an entry of the raw list and every path of the
\* raw list is represented.
C7_Deduplication ==
  frontend \in {"dedup", "core"} =>
    /\ \A a, b \in 1..Len(results) : (a # b) => results[a].path # results[b].path
    /\ \A a \in 1..Len(results) :
         /\ results[a] \in Range(raw)
         /\ \A q \in Range(raw) :
              (q.path = results[a].path) => results[a].distance <= q.distance
    /\ \A q \in Range(raw) : \E a \in 1..Len(results) : results[a].path = q.path

C7_Witness ==
  /\ frontend = "dedup"
  /\ Len(raw) = 3
  /\ Len(results) = 2
  /\ raw[1].path = raw[3].path
  /\ raw[3].distance < raw[1].distance
  /\ raw[2].distance < raw[3].distance

\* C8 as stated: of two results the one with the smaller distance has the
\* strictly greater score, and the returned list is sorted by ascending
\* distance, that is by non-increasing score.
C8_ScoreStrictlyMonotone ==
  /\ \A r1, r2 \in Range(raw) :
       (r1.distance < r2.distance) => score(r1) > score(r2)
  /\ Ascending(results)
  /\ \A a, b \in 1..Len(results) : (a < b) => score(results[a]) >= score(results[b])

\* C8 amended: the score of the result with the smaller distance is greater
\* or equal (two distances can round to the same float score), and the
\* returned list is sorted by ascending distance, by non-increasing score.
C8_ScoreMonotone ==
  /\ \A r1, r2 \in Range(raw) :
       (r1.distance < r2.distance) => score(r1) >= score(r2)
  /\ Ascending(results)
  /\ \A a, b \in 1..Len(results) : (a < b) => score(results[a]) >= score(results[b])

C8_Witness ==
  /\ frontend = "dedup"
  /\ Len(results) = 2
  /\ raw[1].distance > raw[2].distance
  /\ results[1].distance < results[2].distance
  /\ score(results[1]) > score(results[2])

\* C9: search_vault on an indexed vault passes k = max(1, min(limit, 50)) to
\* the vector store: a limit below 1 becomes 1, a limit above 50 becomes 50,
\* and the request is not rejected.
C9_LimitClamped ==
  (frontend = "core" /\ store_exists) =>
    /\ called
    /\ ~failed
    /\ k_arg = (IF limit.val < 1 THEN 1
                ELSE IF limit.val > 50 THEN 50 ELSE limit.val)

C9_Witness ==
  /\ frontend = "core"
  /\ limit.val = 0
  /\ k_arg = 1
  /\ Len(raw) = 1

\* C10: in the CLI, HTTP and MCP search paths the limit that reaches
\* search_similar is within 1..50.
C10_FrontendLimitInRange ==
  (called /\ frontend \in {"cli", "web", "mcp"}) => k_arg \in 1..MAX_SEARCH_LIMIT

\* C11: the list a search returns is no longer than the clamped limit:
\* deduplication returns no more results than the raw match list holds, and
\* the raw match list has at most as many entries as the limit that reached
\* the store, which for search_vault is the limit brought into 1..50.
C11_ResultLength ==
  /\ Len(results) <= Len(raw)
  /\ (called /\ ~failed) => Len(raw) <= k_arg
  /\ (frontend = "core" /\ ~failed) =>
       /\ k_arg = Max(1, Min(limit.val, MAX_SEARCH_LIMIT))
       /\ Len(results) <= Max(1, Min(limit.val, MAX_SEARCH_LIMIT))

C11_Witness ==
  /\ frontend = "core"
  /\ limit.val = 2
  /\ Len(raw) = 2
  /\ Len(results) = 1

\* a search request is made while the store file does not exist
SearchWithoutStore ==
  /\ ~store_exists
  /\ frontend = "none"
  /\ frontend' \in {"core", "cli", "mcp", "web"}

\* C12: a search against a vault whose store file does not exist fails, in
\* search_vault with core.IndexError, before any embedding call, without
\* opening a connection and without creating the store file.
C12_IndexMissing ==
  [][SearchWithoutStore =>
       /\ failed'
       /\ frontend' = "core" => error' = "IndexError"
       /\ error' \in {"IndexError", "SystemExit: No index found",
                      "Error: No index found", "400 Index missing"}
       /\ calls' = <<>>
       /\ ~called'
       /\ ~store_exists'
       /\ marker' = marker]_vars

C12_Witness ==
  /\ frontend = "core"
  /\ error = "IndexError"
  /\ calls = <<>>
  /\ ~store_exists
  /\ limit.val = 10

\* ------------------------------------------------- more indexing claims
\* the store's mtime of the note at path p
stored_mtime(d, p) == (CHOOSE n \in d.notes : n.path = p).mtime

\* C15: in update mode a discovered file is a candidate if and only if its
\* path is absent from the stored mtimes or its mtime is strictly greater
\* than the stored one; a file with an equal or older mtime is not.
C15_UpdateCandidates ==
  (phase = "delete" /\ update_only) =>
    /\ Range(files_to_index) \subseteq Range(scan_vault)
    /\ \A p \in Range(scan_vault) :
         p \in Range(files_to_index) <=>
           \/ get_note_by_path(disk, p) = {}
           \/ st_mtime(p) > stored_mtime(disk, p)

C15_Witness ==
  /\ phase = "delete"
  /\ update_only
  /\ scan_vault = <<"a.md", "b.md">>
  /\ files_to_index = <<"b.md">>
  /\ get_note_by_path(disk, "a.md") # {}
  /\ get_note_by_path(disk, "b.md") # {}
  /\ st_mtime("a.md") < stored_mtime(disk, "a.md")
  /\ st_mtime("b.md") > stored_mtime(disk, "b.md")

\* what one update run on an unchanged vault leaves when nothing raises: a
\* note for every file that has chunks, none for a file that is gone
Converged ==
  /\ \A p \in run.walk :
       note_chunks(body_of(p)) # <<>> => get_note_by_path(disk, p) # {}
  /\ \A p \in Gone : get_note_by_path(disk, p) = {}

\* C18: when a run is killed the committed store holds only whole per-note
\* replacements: of a note whose upsert raised partway nothing is committed;
\* and an update run that follows it and raises nothing leaves the notes
\* an uninterrupted run would have left.
C18_KilledStoreWhole ==
  /\ phase = "killed" =>
       \A p \in Paths :
         run.raised[p] = "upsert" => RowsOf(disk, p) = run.prior[p]
  /\ (Returned /\ update_only /\ NoneRaised(run)) => Converged

\* C19: an index or update operation against a root that lacks .obsidian
\* is rejected and creates neither the directory nor the store file.
C19_MarkerNeverCreated ==
  [][marker = "absent" =>
       /\ marker' = "absent"
       /\ ~store_exists'
       /\ phase' \in {"idle", "rejected"}]_vars

\* ------------------------------------------------------------ note reading
\* longest request path, in components
MaxParts == 3

\* The directory tree, paths written as sequences of names from "/": the
\* vault /v holds the note n.md and a symbolic link out to "/"; the file
\* /s.txt lies outside the vault.
vault_path == <<"v">>

Dirs == {<<>>, <<"v">>}

Files == {<<"v", "n.md">>, <<"s.txt">>}

Links == {<<"v", "out">>}

readlink(p) == <<>>

Names == {"..", "v", "n.md", "s.txt", "out"}

\* the note paths a request may carry: relative or absolute ("" is the
\* relative path without components)
RequestPaths ==
  [is_abs : BOOLEAN, parts : UNION {[1..n -> Names] : n \in 0..MaxParts}]

Parent(p) == IF p = <<>> THEN <<>> ELSE SubSeq(p, 1, Len(p) - 1)

\* pathlib's vault_path / note_path: an absolute right operand replaces the left
joinpath(base, q) == IF q.is_abs THEN q.parts ELSE base \o q.parts

RECURSIVE normpath(_, _)
\* ".." removed by name only, links not followed
normpath(cur, rest) ==
  IF rest = <<>> THEN cur
  ELSE IF Head(rest) = ".." THEN normpath(Parent(cur), Tail(rest))
       ELSE normpath(Append(cur, Head(rest)), Tail(rest))

RECURSIVE realpath(_, _)
\* Path.resolve(): os.path.realpath, not strict: ".." pops the last name,
\* a link is replaced by its target, a name that does not exist is kept
realpath(cur, rest) ==
  IF rest = <<>> THEN cur
  ELSE IF Head(rest) = ".." THEN realpath(Parent(cur), Tail(rest))
       ELSE LET nxt == Append(cur, Head(rest))
            IN  IF nxt \in Links THEN realpath(readlink(nxt), Tail(rest))
                ELSE realpath(nxt, Tail(rest))

resolve_by_name(p) == normpath(<<>>, p)

resolve(p) == realpath(<<>>, p)

NoEntry == [found |-> FALSE, node |-> <<>>]

RECURSIVE lookup(_, _)
\* what the operating system finds at a path (stat, open): each name is
\* looked up in a directory, links are followed
lookup(cur, rest) ==
  IF rest = <<>> THEN [found |-> TRUE, node |-> cur]
  ELSE IF cur \notin Dirs THEN NoEntry
  ELSE IF Head(rest) = ".." THEN lookup(Parent(cur), Tail(rest))
  ELSE LET nxt == Append(cur, Head(rest))
       IN  IF nxt \in Links THEN lookup(readlink(nxt), Tail(rest))
           ELSE IF nxt \in Dirs \cup Files THEN lookup(nxt, Tail(rest))
           ELSE NoEntry

exists(p) == lookup(<<>>, p).found

is_file(p) == lookup(<<>>, p).found /\ lookup(<<>>, p).node \in Files

\* read_text(p): the file that is opened
read_text(p) == {lookup(<<>>, p).node}

\* path.relative_to(base) does not raise: base is a prefix of path, by names
_is_relative_to(path, base) ==
  /\ Len(path) >= Len(base)
  /\ SubSeq(path, 1, Len(base)) = base

\* web_app do_POST /api/read
WebRead ==
  \E note_path \in RequestPaths :
    /\ rd.via = "none"
    /\ LET full_path == resolve(joinpath(vault_path, note_path))
           answer == IF ~note_path.is_abs /\ note_path.parts = <<>>
                     THEN "Path is required."
                     ELSE IF ~_is_relative_to(full_path, vault_path)
                     THEN "Invalid path."
                     ELSE IF ~exists(full_path) \/ ~is_file(full_path)
                     THEN "Note not found."
                     ELSE "content"
       IN  /\ rd' = [via |-> "web", at |-> note_path, answer |-> answer,
                     opened |-> IF answer = "content" THEN read_text(full_path)
                                ELSE {}]
           /\ UNCHANGED <<ivars, svars, mvars, pn>>

\* mcp_server.handle_read
McpRead ==
  \E note_path \in RequestPaths :
    /\ rd.via = "none"
    /\ LET full_path == joinpath(vault_path, note_path)
           answer == IF ~exists(full_path) THEN "Error: Note not found"
                     ELSE IF ~is_file(full_path) THEN "Error: Not a file"
                     ELSE "content"
       IN  /\ rd' = [via |-> "mcp", at |-> note_path, answer |-> answer,
                     opened |-> IF answer = "content" THEN read_text(full_path)
                                ELSE {}]
           /\ UNCHANGED <<ivars, svars, mvars, pn>>

\* the answer has been delivered; nothing of the request is kept
ReadAnswered ==
  /\ rd.via # "none"
  /\ rd' = NoRead
  /\ UNCHANGED <<ivars, svars, mvars, pn>>

NextRead ==
  \/ WebRead
  \/ McpRead
  \/ ReadAnswered

\* note-read requests to the HTTP interface and to the MCP tool
SpecRead == Init /\ [][NextRead]_vars

\* p is the vault root or lies below it
InVault(p) == Len(p) >= 1 /\ p[1] = "v"

\* the request's path resolves outside the vault root
ResolvesOutside(q) == ~InVault(resolve(joinpath(vault_path, q)))

\* C13: /api/read never reads a file that lies outside the vault root: a
\* request path that resolves outside the root, by ".." components, by an
\* absolute path or through a link, is answered with Invalid path and no
\* file is opened.
C13_WebReadStaysInVault ==
  rd.via = "web" =>
    /\ \A f \in rd.opened : InVault(f)
    /\ ResolvesOutside(rd.at) =>
         (rd.answer = "Invalid path." /\ rd.opened = {})

C13_Witness ==
  /\ rd.via = "web"
  /\ rd.at = [is_abs |-> FALSE, parts |-> <<"..", "s.txt">>]
  /\ rd.answer = "Invalid path."
  /\ rd.opened = {}

\* C14: obsidian_read rejects, without attempting the read, a request whose
\* path resolves outside the vault root, and never returns the content of a
\* file outside the vault.
C14_McpReadStaysInVault ==
  rd.via = "mcp" =>
    /\ \A f \in rd.opened : InVault(f)
    /\ ResolvesOutside(rd.at) => (rd.answer # "content" /\ rd.opened = {})

\* --------------------------------------------------- parser.py, by character
\* Strings are sequences of characters.  The chunking parameters are scaled
\* down from 1500 and 200 so that texts of a few characters go through every
\* branch of chunk_text.
CHUNK_SIZE == 4

CHUNK_OVERLAP == 3

\* longest text given to chunk_text
MaxLen == 8

NL == "\n"

Chars == {"a", "b", " ", NL}

IsSpace(c) == c \in {" ", NL}

Texts == UNION {[1..n -> Chars] : n \in 0..MaxLen}

Titles == {<<"T">>}

RECURSIVE lstrip(_)
lstrip(s) ==
  IF s # <<>> /\ IsSpace(Head(s)) THEN lstrip(Tail(s)) ELSE s

RECURSIVE rstrip(_)
rstrip(s) ==
  IF s # <<>> /\ IsSpace(s[Len(s)]) THEN rstrip(SubSeq(s, 1, Len(s) - 1)) ELSE s

strip(s) == lstrip(rstrip(s))

\* s[n:]
from(s, n) == SubSeq(s, n + 1, Len(s))

\* s[-n:], n > 0
last(s, n) == IF Len(s) <= n THEN s ELSE SubSeq(s, Len(s) - n + 1, Len(s))

\* s.find(" "): 0-based position of the first space, -1 when there is none
find_space(s) ==
  IF \E k \in 1..Len(s) : s[k] = " "
  THEN (CHOOSE k \in 1..Len(s) : s[k] = " " /\ \A j \in 1..(k - 1) : s[j] # " ") - 1
  ELSE -1

RECURSIVE drop_newlines(_)
drop_newlines(s) ==
  IF s # <<>> /\ Head(s) = NL THEN drop_newlines(Tail(s)) ELSE s

RECURSIVE re_split_paragraphs(_, _)
\* re.split(r"\n\n+", text): cur is the piece being read
re_split_paragraphs(s, cur) ==
  IF s = <<>> THEN <<cur>>
  ELSE IF Len(s) >= 2 /\ s[1] = NL /\ s[2] = NL
       THEN <<cur>> \o re_split_paragraphs(drop_newlines(s), <<>>)
       ELSE re_split_paragraphs(Tail(s), Append(cur, Head(s)))

RECURSIVE split_words(_, _)
\* str.split(): the maximal runs of non-whitespace characters
split_words(s, cur) ==
  IF s = <<>> THEN (IF cur = <<>> THEN <<>> ELSE <<cur>>)
  ELSE IF IsSpace(Head(s))
       THEN (IF cur = <<>> THEN <<>> ELSE <<cur>>) \o split_words(Tail(s), <<>>)
       ELSE split_words(Tail(s), Append(cur, Head(s)))

split(s) == split_words(s, <<>>)

\* f"{title}\n\n{current_chunk.strip()}", with the overlap the chunk was
\* started from (bookkeeping, <<>> when it was started without one)
flushed(title, current_chunk, seed) ==
  [text |-> title \o <<NL, NL>> \o strip(current_chunk), seed |-> seed]

RECURSIVE word_loop_no_flush(_, _, _, _)
word_loop_no_flush(words, chunks, current_chunk, title) ==
  IF words = <<>> THEN [chunks |-> chunks, current_chunk |-> current_chunk]
  ELSE LET word == Head(words)
       IN  IF Len(current_chunk) + Len(word) + 1 > CHUNK_SIZE
           THEN word_loop_no_flush(Tail(words), chunks, word, title)
           ELSE word_loop_no_flush(Tail(words), chunks,
                          strip(current_chunk \o <<" ">> \o word), title)

RECURSIVE word_loop(_, _, _, _)
\* the for loop of lines 138-144
word_loop(words, chunks, current_chunk, title) ==
  IF words = <<>> THEN [chunks |-> chunks, current_chunk |-> current_chunk]
  ELSE LET word == Head(words)
       IN  IF Len(current_chunk) + Len(word) + 1 > CHUNK_SIZE
           THEN word_loop(Tail(words),
                          IF current_chunk # <<>>
                          THEN Append(chunks, flushed(title, current_chunk, <<>>))
                          ELSE chunks,
                          word, title)
           ELSE word_loop(Tail(words), chunks,
                          strip(current_chunk \o <<" ">> \o word), title)

\* lines 149-155: the chunk that starts with the overlap of the last one
overlap_of(chunks, title) ==
  LET prev_content == from(chunks[Len(chunks)].text, Len(title) + 2)
      overlap == lstrip(last(prev_content, CHUNK_OVERLAP))
      space_idx == find_space(overlap)
  IN  IF space_idx > 0 THEN from(overlap, space_idx + 1) ELSE overlap

RECURSIVE paragraph_loop(_, _, _, _, _)
\* the for loop of lines 124-159 and the last flush of lines 162-163
paragraph_loop(paragraphs, chunks, current_chunk, seed, title) ==
  IF paragraphs = <<>>
  THEN IF strip(current_chunk) # <<>>
       THEN Append(chunks, flushed(title, current_chunk, seed))
       ELSE chunks
  ELSE LET para == strip(Head(paragraphs))
           rest == Tail(paragraphs)
       IN  IF para = <<>>
           THEN paragraph_loop(rest, chunks, current_chunk, seed, title)
           ELSE IF Len(current_chunk) + Len(para) + 2 > CHUNK_SIZE
           THEN LET chunks1 == IF current_chunk # <<>>
                               THEN Append(chunks, flushed(title, current_chunk, seed))
                               ELSE chunks
                IN  IF Len(para) > CHUNK_SIZE
                    THEN LET w == word_loop(split(para), chunks1, <<>>, title)
                         IN  paragraph_loop(rest, w.chunks, w.current_chunk, <<>>, title)
                    ELSE IF chunks1 # <<>>
                    THEN LET overlap == overlap_of(chunks1, title)
                         IN  IF overlap # <<>>
                             THEN paragraph_loop(rest, chunks1,
                                    overlap \o <<NL, NL>> \o para, overlap, title)
                             ELSE paragraph_loop(rest, chunks1, para, <<>>, title)
                    ELSE paragraph_loop(rest, chunks1, para, <<>>, title)
           ELSE paragraph_loop(rest, chunks,
                               strip(current_chunk \o <<NL, NL>> \o para), seed, title)

\* chunk_text with, for every chunk, the overlap it was started from
chunk_text_seeded(text, title) ==
  IF Len(text) <= CHUNK_SIZE
  THEN IF strip(text) # <<>>
       THEN <<[text |-> title \o <<NL, NL>> \o text, seed |-> <<>>]>>
       ELSE <<>>
  ELSE paragraph_loop(re_split_paragraphs(text, <<>>), <<>>, <<>>, <<>>, title)

chunk_text(text, title) ==
  LET r == chunk_text_seeded(text, title)
  IN  [k \in 1..Len(r) |-> r[k].text]

\* a call chunk_text(text, title)
ChunkText ==
  /\ pn.op = "none"
  /\ \E text \in Texts, title \in Titles :
       pn' = [op |-> "chunk_text", text |-> text, title |-> title,
              chunks |-> chunk_text(text, title),
              seeds |-> [k \in 1..Len(chunk_text_seeded(text, title)) |->
                           chunk_text_seeded(text, title)[k].seed]]
  /\ UNCHANGED <<ivars, svars, mvars, rd>>

\* longest body given to extract_title
MaxContent == 5

TitleChars == {"#", " ", NL, "x"}

Contents == UNION {[1..n -> TitleChars] : n \in 0..MaxContent}

\* what frontmatter.get("title") gives: nothing, or a title
Frontmatters == {[has_title |-> FALSE, title |-> <<>>],
                 [has_title |-> TRUE, title |-> <<"F">>]}

\* file_path.stem
stem == <<"n">>

\* where a line of s starts with "#"
HashAtLineStart(s) ==
  {p \in 1..Len(s) : s[p] = "#" /\ (p = 1 \/ s[p - 1] = NL)}

\* how many whitespace characters follow position p
SpacesAfter(s, p) ==
  Cardinality({k \in 1..(Len(s) - p) : \A j \in 1..k : IsSpace(s[p + j])})

\* the lengths \s+ can take after the "#" at p so that (.+)$ still matches:
\* \s matches a newline, "." does not
SpaceRuns(s, p) ==
  {j \in 1..SpacesAfter(s, p) : p + j + 1 <= Len(s) /\ s[p + j + 1] # NL}

\* the end of the line that position q is on
EndOfLine(s, q) ==
  CHOOSE e \in q..Len(s) :
    /\ \A j \in q..e : s[j] # NL
    /\ e = Len(s) \/ s[e + 1] = NL

\* re.search(r"^#\s+(.+)$", content, re.MULTILINE): the leftmost match, \s+
\* as long as it can be, and group(1)
h1_match(s) ==
  LET at == {p \in HashAtLineStart(s) : SpaceRuns(s, p) # {}}
  IN  IF at = {} THEN [found |-> FALSE, group |-> <<>>]
      ELSE LET p == CHOOSE x \in at : \A y \in at : x <= y
               j == CHOOSE x \in SpaceRuns(s, p) : \A y \in SpaceRuns(s, p) : y <= x
               q == p + j + 1
           IN  [found |-> TRUE, group |-> SubSeq(s, q, EndOfLine(s, q))]

extract_title(frontmatter, content) ==
  IF frontmatter.has_title THEN frontmatter.title
  ELSE IF h1_match(content).found THEN strip(h1_match(content).group)
  ELSE stem

\* a call extract_title(frontmatter, content, file_path)
ExtractTitle ==
  /\ pn.op = "none"
  /\ \E frontmatter \in Frontmatters, content \in Contents :
       pn' = [op |-> "extract_title", frontmatter |-> frontmatter,
              content |-> content, result |-> extract_title(frontmatter, content)]
  /\ UNCHANGED <<ivars, svars, mvars, rd>>

\* a value of the shape the model gives to what yaml.safe_load returns
Loaded(type, truthy, has_title, title) ==
  [type |-> type, truthy |-> truthy, has_title |-> has_title, title |-> title]

\* what yaml.safe_load does with the text between the "---" lines: it raises
\* YAMLError, or returns None, a mapping (empty, without a title, with one),
\* a list (empty or not) or a scalar (a falsy one such as 0, or a string)
YamlLoads ==
  {Loaded("YAMLError", FALSE, FALSE, <<>>),
   Loaded("None", FALSE, FALSE, <<>>),
   Loaded("dict", FALSE, FALSE, <<>>),
   Loaded("dict", TRUE, FALSE, <<>>),
   Loaded("dict", TRUE, TRUE, <<"F">>),
   Loaded("list", FALSE, FALSE, <<>>),
   Loaded("list", TRUE, FALSE, <<>>),
   Loaded("scalar", FALSE, FALSE, <<>>),
   Loaded("scalar", TRUE, FALSE, <<>>)}

\* the start of a file: FRONTMATTER_PATTERN matches there or not, and what
\* the matched text loads to
Blocks ==
  {[matched |-> FALSE, loads |-> Loaded("None", FALSE, FALSE, <<>>)]}
    \cup {[matched |-> TRUE, loads |-> y] : y \in YamlLoads}

\* {}
EmptyDict == Loaded("dict", FALSE, FALSE, <<>>)

\* the first component of what extract_frontmatter returns: only YAMLError
\* is caught, and "or {}" replaces only a falsy value
extract_frontmatter(block) ==
  IF ~block.matched THEN EmptyDict
  ELSE IF block.loads.type = "YAMLError" THEN EmptyDict
  ELSE IF ~block.loads.truthy THEN EmptyDict
  ELSE block.loads

\* frontmatter.get("title") on a list or a scalar
get_raises(frontmatter) == frontmatter.type # "dict"

\* parse_note up to the title: extract_frontmatter, then extract_title
parse_note_title(block, content) ==
  LET frontmatter == extract_frontmatter(block)
  IN  IF get_raises(frontmatter)
      THEN [raised |-> "AttributeError", title |-> <<>>]
      ELSE [raised |-> "no", title |-> extract_title(frontmatter, content)]

\* a call parse_note(file_path) of a file with this start and this body
ParseNote ==
  /\ pn.op = "none"
  /\ \E block \in Blocks, content \in Contents :
       pn' = [op |-> "parse_note", block |-> block, content |-> content,
              result |-> parse_note_title(block, content)]
  /\ UNCHANGED <<ivars, svars, mvars, rd>>

\* the call has returned; nothing of it is kept
Returns ==
  /\ pn.op # "none"
  /\ pn' = NoParse
  /\ UNCHANGED <<ivars, svars, mvars, rd>>

NextParse ==
  \/ ChunkText
  \/ ExtractTitle
  \/ ParseNote
  \/ Returns

\* calls of the parser's functions
SpecParse == Init /\ [][NextParse]_vars

\* the text of chunk k after the title prefix
Body(k) == from(pn.chunks[k], Len(pn.title) + 2)

\* the body of chunk k without the overlap it was started from
Fresh(k) == from(Body(k), Len(lstrip(pn.seeds[k])))

RECURSIVE FreshWords(_)
\* the words of the first k chunks, overlaps left out, in order
FreshWords(k) ==
  IF k = 0 THEN <<>> ELSE FreshWords(k - 1) \o split(Fresh(k))

\* C16: chunk_text loses no text of a body longer than the chunk size: the
\* chunks, with the title prefix and the seeded overlap stripped and taken
\* in order, hold the words of the body in their order, none missing.
C16_ChunkCoverage ==
  (pn.op = "chunk_text" /\ Len(pn.text) > CHUNK_SIZE) =>
    /\ FreshWords(Len(pn.chunks)) = split(pn.text)
    /\ \A k \in 1..Len(pn.chunks) :
         /\ SubSeq(pn.chunks[k], 1, Len(pn.title) + 2) = pn.title \o <<NL, NL>>
         /\ SubSeq(Body(k), 1, Len(lstrip(pn.seeds[k]))) = lstrip(pn.seeds[k])

C16_Witness ==
  /\ pn.op = "chunk_text"
  /\ pn.text = <<"a", " ", "b", NL, NL, "a", "b">>
  /\ Len(pn.chunks) = 2
  /\ pn.seeds[2] = <<"b">>
  /\ Body(2) = <<"b", NL, NL, "a", "b">>

\* the text is one paragraph longer than the chunk size
SingleLongParagraph(text) ==
  /\ Len(strip(text)) > CHUNK_SIZE
  /\ Len(re_split_paragraphs(strip(text), <<>>)) = 1

\* C20: when one paragraph longer than the chunk size is split on word
\* boundaries, every chunk it gives has a body of at most CHUNK_SIZE
\* characters, also when the paragraph holds a word longer than that.
C20_SplitChunksWithinSize ==
  (pn.op = "chunk_text" /\ SingleLongParagraph(pn.text)) =>
    \A k \in 1..Len(pn.chunks) : Len(Body(k)) <= CHUNK_SIZE

RECURSIVE lines_of(_, _)
\* the lines of s
lines_of(s, cur) ==
  IF s = <<>> THEN <<cur>>
  ELSE IF Head(s) = NL THEN <<cur>> \o lines_of(Tail(s), <<>>)
       ELSE lines_of(Tail(s), Append(cur, Head(s)))

\* a level-1 heading: "#", a space, and a text
IsH1(line) ==
  /\ Len(line) >= 2
  /\ line[1] = "#"
  /\ line[2] = " "
  /\ strip(from(line, 1)) # <<>>

\* the title as the rule gives it
TitleByRule(frontmatter, content) ==
  LET lines == lines_of(content, <<>>)
      h1 == {k \in 1..Len(lines) : IsH1(lines[k])}
  IN  IF frontmatter.has_title THEN frontmatter.title
      ELSE IF h1 # {}
           THEN strip(from(lines[CHOOSE k \in h1 : \A j \in h1 : k <= j], 1))
           ELSE stem

\* C17: the title of a parsed note is the frontmatter title when there is
\* one, otherwise the text of the first level-1 heading of the body,
\* otherwise the file name without its extension.
C17_TitleResolution ==
  pn.op = "extract_title" =>
    pn.result = TitleByRule(pn.frontmatter, pn.content)

\* the block is not valid YAML, or loads to something that is no mapping
NotAMapping(block) ==
  block.matched /\ block.loads.type \in {"YAMLError", "list", "scalar"}

\* C21: parse_note does not fail because of a leading "---" block: a block
\* that is not valid YAML, or that loads to a scalar or a list, is treated as
\* empty frontmatter, and title resolution still returns a title.
C21_FrontmatterNeverFails ==
  (pn.op = "parse_note" /\ pn.block.matched) =>
    /\ pn.result.raised = "no"
    /\ NotAMapping(pn.block) =>
         pn.result.title = extract_title(EmptyDict, pn.content)

\* every paragraph of the text, stripped as the loop strips it, fits within
\* the chunk size
ParagraphsFit(text) ==
  LET paragraphs == re_split_paragraphs(text, <<>>)
  IN  \A k \in 1..Len(paragraphs) : Len(strip(paragraphs[k])) <= CHUNK_SIZE

\* C30: every chunk that chunk_text emits for a body whose paragraphs each
\* fit within the chunk size has a body of at most CHUNK_SIZE characters,
\* also a chunk whose buffer was started from the overlap of the chunk
\* before it.
C30_SeededChunksWithinSize ==
  (pn.op = "chunk_text" /\ ParagraphsFit(pn.text)) =>
    \A k \in 1..Len(pn.chunks) : Len(Body(k)) <= CHUNK_SIZE

\* the positions of run.steps that belong to candidate k
StepsAt(k) == {n \in 1..Len(run.steps) : run.steps[n].at = k}

\* C22: in a run with N candidates the current values given to the progress
\* callback never decrease and lie within 1..N, the total is always N, every
\* candidate taken is notified at least once, and the notification of a
\* candidate comes before it is parsed, embedded or written to the store.
C22_ProgressNotifications ==
  phase \in {"index", "done"} =>
    LET N == Len(files_to_index)
    IN  /\ \A n \in 1..Len(log) :
             /\ log[n].current \in 1..N
             /\ log[n].total = N
             /\ n > 1 => log[n - 1].current <= log[n].current
        /\ \A k \in Taken :
             /\ \E n \in 1..Len(log) :
                  /\ log[n].current = k
                  /\ log[n].kind = "Indexing"
                  /\ log[n].path = files_to_index[k]
             /\ StepsAt(k) # {}
             /\ \A n \in StepsAt(k) :
                  run.steps[n].op # "notify" =>
                    \E j \in StepsAt(k) : j < n /\ run.steps[j].op = "notify"
        /\ Returned => Taken = 1..N

C22_Witness ==
  /\ Returned
  /\ Len(files_to_index) = 2
  /\ Len(log) = 3
  /\ log[2].kind = "Error"
  /\ log[2].current = 1
  /\ log[3].current = 2
  /\ Len(run.steps) = 7
  /\ run.steps[3] = [op |-> "embed", at |-> 1]
  /\ run.steps[4] = [op |-> "notify", at |-> 2]
  /\ run.steps[7] = [op |-> "upsert", at |-> 2]

\* the embedding rows of d that hold the vector of chunk row c
EmbeddingsOf(d, c) ==
  {e \in d.embeddings : e.path = c.path /\ e.chunk_index = c.chunk_index}

\* C23: in every committed state of the store, whatever upsert_note and
\* delete_note calls led to it and also when some of them raised partway,
\* every chunk row has exactly one embedding row, every embedding row
\* belongs to a chunk row, and every chunk row belongs to a note row.
C23_CommittedRowsLinked ==
  /\ \A c \in disk.chunks :
       /\ Cardinality(EmbeddingsOf(disk, c)) = 1
       /\ get_note_by_path(disk, c.path) # {}
  /\ \A e \in disk.embeddings :
       \E c \in disk.chunks : e \in EmbeddingsOf(disk, c)

\* the rows a note has when exactly these chunks are stored for it
WholeRows(path, title, content, mtime, chunks) ==
  [notes |-> {[path |-> path, title |-> title, content |-> content,
               mtime |-> mtime]},
   chunks |-> {[path |-> path, chunk_index |-> k - 1, content |-> chunks[k]] :
                 k \in 1..Len(chunks)},
   embeddings |-> {[path |-> path, chunk_index |-> k - 1] : k \in 1..Len(chunks)}]

\* the iteration ends with an upsert_note that returned
UpsertReturns == phase = "index" /\ indexed' = indexed + 1

\* C24: after an upsert_note that returned and was given as many embeddings
\* as chunks, the store holds one note row of the path with the new title,
\* content and mtime, its chunks are the given chunks with chunk_index
\* 0..n-1 in their order, each with its embedding, nothing of the previous
\* version is left, and the rows of every other note are as they were.
C24_UpsertPostcondition ==
  [][UpsertReturns =>
       LET path == files_to_index[i + 1]
           note == parse_note(body_of(path))
           mtime == (CHOOSE f \in fs' : f.path = path).mtime
       IN  Len(run'.outcome[path]) = Len(note.chunks) =>
             /\ RowsOf(db', path) =
                  WholeRows(path, note.title, note.content, mtime, note.chunks)
             /\ \A q \in Paths \ {path} : RowsOf(db', q) = RowsOf(db, q)
             /\ disk' = db']_vars

C24_Witness ==
  /\ phase = "index"
  /\ update_only
  /\ i = 1
  /\ indexed = 1
  /\ files_to_index = <<"a.md">>
  /\ run.start_notes = {"a.md", "b.md"}
  /\ body_of("a.md") = "l"
  /\ Len(run.outcome["a.md"]) = 2
  /\ RowsOf(disk, "a.md") = WholeRows("a.md", "l", "l", 2, note_chunks("l"))
  /\ get_chunk_count(disk) = 3

\* C25: a file rewritten during a run, after parse_note read its content and
\* before its mtime was read for the store, is classified as modified by
\* the update run that follows and is indexed again: the store does not
\* keep the old content under an mtime that is not older than the file's.
C25_RacedFileReindexed ==
  (phase = "delete" /\ update_only) =>
    \A p \in run.stale :
      \/ p \in Range(files_to_index)
      \/ \A n \in get_note_by_path(disk, p) : n.mtime < st_mtime(p)

\* the candidates of an update run that were in the store before it: the
\* files the run classified as modified
Modified == Range(files_to_index) \cap run.start_notes

\* C26: after an update run has returned, the store holds no content of an
\* earlier version of a file the run classified as modified: when the file
\* now gives no chunk, or its parse or embedding fails, the old note with
\* its chunks and embeddings is no longer there to be found.
C26_NoStaleVersionKept ==
  (Returned /\ update_only) =>
    \A p \in Modified :
      /\ \A n \in get_note_by_path(disk, p) : n.content = body_of(p)
      /\ \A r \in search_similar_rows(disk) :
           r.path = p => r.note_content = body_of(p)

\* the candidates taken whose upsert_note returned
Upserted ==
  {k \in Taken : /\ \E n \in StepsAt(k) : run.steps[n].op = "upsert"
                 /\ ~RaisedAt(k)}

\* C27: when a run returns, indexed + skipped is the number of candidates,
\* which is the total given to the progress callback, and every candidate
\* is in exactly one of the two counters: indexed counts the candidates
\* whose upsert_note returned, skipped all the others.
C27_CountersPartitionCandidates ==
  Returned =>
    LET N == Len(files_to_index)
    IN  /\ indexed + skipped = N
        /\ \A n \in 1..Len(log) : log[n].total = N
        /\ indexed = Cardinality(Upserted)
        /\ skipped = Cardinality((1..N) \ Upserted)

C27_Witness ==
  /\ Returned
  /\ Len(files_to_index) = 2
  /\ indexed = 1
  /\ skipped = 1
  /\ EmptyAt(1)
  /\ Upserted = {2}

\* the stored notes whose file is there with an mtime that is not greater
\* than the stored one
Unchanged ==
  {p \in Range(scan_vault) :
     /\ get_note_by_path(disk, p) # {}
     /\ st_mtime(p) <= stored_mtime(disk, p)}

\* C28: no step of an update run changes the note row, a chunk row or an
\* embedding row of a stored note whose file still exists with an mtime not
\* greater than the stored one, neither in the committed store nor in the
\* connection's view: only rows of new, modified or deleted notes are
\* written.
C28_UnchangedNotesUntouched ==
  [][(phase \in {"delete", "index"} /\ update_only) =>
       \A p \in Unchanged :
         /\ RowsOf(disk', p) = RowsOf(disk, p)
         /\ RowsOf(db', p) = RowsOf(db, p)]_vars

C28_Witness ==
  /\ Returned
  /\ update_only
  /\ run.start_notes = {"a.md", "b.md"}
  /\ files_to_index = <<"a.md">>
  /\ indexed = 1
  /\ "b.md" \in Unchanged
  /\ st_mtime("b.md") < stored_mtime(disk, "b.md")
  /\ RowsOf(disk, "b.md").chunks # {}

\* C29: a note counted as indexed has all of its parsed chunks stored: when
\* upsert_note has returned, the note has as many chunk rows as parse_note
\* gave chunks, also when the provider returned a list of another length.
C29_IndexedNoteHasAllChunks ==
  [][UpsertReturns =>
       LET path == files_to_index[i + 1]
           note == parse_note(body_of(path))
       IN  Cardinality(RowsOf(disk', path).chunks) = Len(note.chunks)]_vars
====
